---- MODULE Spec2Model ----
(***************************************************************************)
(* CityPulse backend: the Issue / Assignment workflow core.                *)
(*                                                                         *)
(* The stores are the MongoDB collections `issues` and `assignments`.      *)
(*   Spec      every handler of the issue and assignment controllers, one  *)
(*             request at a time (each handler is one action);             *)
(*   SpecChain the handlers that create and hand over assignments, with    *)
(*             room for a longer chain of assignment documents;            *)
(*   SpecTime  the handlers that resolve an issue, with the clock running; *)
(*   SpecRace  two createAssignment requests whose awaited reads and       *)
(*             writes interleave;                                          *)
(*   SpecFeedback  the feedbackController handlers;                        *)
(*   SpecOfficer   a feedback and the handlers that change the officer of  *)
(*             its Issue;                                                  *)
(*   SpecSubmit    two createFeedback requests whose awaits interleave;    *)
(*   SpecNotify    NotificationService.createNotification, await by await. *)
(* The socket module the service requires is not part of the sources; its  *)
(* getIO/emit is any of PushOutcomes.                                      *)
(*                                                                         *)
(* `notified` lists the createNotification calls of the request handled    *)
(* last, in call order; the Notification collection those calls write to   *)
(* is `notifications`, followed document by document in SpecNotify.        *)
(***************************************************************************)
EXTENDS Integers, Sequences, FiniteSets, TLC

\* ---------------------------------------------------------------- bounds
MaxIssues   == 1     \* issue documents ever created
MaxAsg      == 2     \* assignment documents ever created
MaxChain    == 3     \* assignment documents ever created, in SpecChain
MaxHist     == 3     \* entries in one assignment's history
MaxNow      == 1     \* clock ticks (one tick = half an hour)
NOfficers   == 2     \* officer accounts
MaxOverride == 1     \* largest resolutionTime sent in an updateIssue body
NCitizens   == 2     \* citizen accounts
NAdmins     == 2     \* admin accounts
MaxFb       == 2     \* feedback documents ever created
MaxReplies  == 1     \* replies on one feedback document
MaxNotif    == 2     \* notification documents ever created, in SpecNotify
MaxComments == 2     \* comments on one issue, in SpecComment

\* ------------------------------------------------------------- constants
NoOfficer     == 0   \* Issue.assignedTo unset
NoTime        == 0 - 1   \* Issue.resolutionTime null
TicksPerHour  == 2   \* clock ticks in the 1000*60*60 ms divisor

MinRating     == 1   \* feedbackSchema.rating min
MaxRating     == 5   \* feedbackSchema.rating max

IssueIds  == 1..MaxIssues
Officers  == 1..NOfficers
Citizens  == (NOfficers + 1)..(NOfficers + NCitizens)
Admins    == (NOfficers + NCitizens + 1)..(NOfficers + NCitizens + NAdmins)
Users     == Officers \cup Citizens \cup Admins
Reporters == {NOfficers + 1}   \* the citizens that report issues
Procs     == {1, 2}

IssueStatus == {"open", "assigned", "in-progress", "resolved", "closed"}
AsgStatus   == {"active", "accepted", "completed", "reassigned", "cancelled"}
HistAction  == {"assigned", "accepted", "reassigned", "completed"}
FbStatus    == {"pending", "approved", "rejected"}

VARIABLES
    issues,       \* Issue collection: id -> document
    assignments,  \* Assignment collection: sequence, _id = index
    now,          \* wall clock, in ticks
    resp,         \* the last response: the handler and its HTTP status code
    pc,           \* position of each request served await by await
    req,          \* its request: (issueId, assignedTo), or (assignment id, caller)
    snap,         \* the Issue or Assignment document it loaded
    result,       \* its HTTP status code
    notified,     \* createNotification calls of the last request
    feedbacks,    \* Feedback collection: sequence, _id = index
    users,        \* User collection: officer id -> stored document
    notifications,\* Notification collection: sequence, _id = index
    notify,       \* SpecNotify: the createNotification call in flight
    calendar      \* what the calendar block of the last assign, accept or
                  \* reassign met

vars == <<issues, assignments, now, resp, pc, req, snap, result,
          notified, feedbacks, users, notifications, notify, calendar>>
raceVars == <<pc, req, snap, result>>
fbVars == <<feedbacks, users>>
noteVars == <<notifications, notify>>

\* ------------------------------------------------------------ documents
\* An id that was never inserted ("none") or was removed ("deleted") holds
\* the blank document; findById returns null for both.
\* `modified` stands for updatedAt # createdAt.
BlankIssue(l) ==
    [life |-> l, status |-> "open", assignedTo |-> NoOfficer,
     resolutionTime |-> NoTime, createdAt |-> 0,
     reportedBy |-> 0, modified |-> FALSE, comments |-> <<>>]

NewIssue(t, c) ==
    [life |-> "live", status |-> "open", assignedTo |-> NoOfficer,
     resolutionTime |-> NoTime, createdAt |-> t,
     reportedBy |-> c, modified |-> FALSE, comments |-> <<>>]

NewAssignment(i, o) ==
    [issue |-> i, assignedTo |-> o, status |-> "active",
     history |-> <<"assigned">>]

Found(iss, i) == i \in IssueIds /\ iss[i].life = "live"

AsgIds == 1..Len(assignments)

\* res.status(code).json(...) of the handler op
Response(op, code) == [op |-> op, code |-> code]

\* a findOne that matches only status 'active'
ExistingAssignment_ActiveOnly(asgs, i) ==
    \E k \in 1..Len(asgs) : asgs[k].issue = i /\ asgs[k].status = "active"

\* Assignment.findOne({issue, status: {$in: ['active','accepted']}})
ExistingAssignment(asgs, i) ==
    \E k \in 1..Len(asgs) :
        asgs[k].issue = i /\ asgs[k].status \in {"active", "accepted"}

\* Math.round((now - createdAt) / (1000*60*60)), halves rounded up
DiffInHours(t, created) == ((t - created) * 2 + TicksPerHour) \div (2 * TicksPerHour)

\* ------------------------------------------------------- notifications
\* NotificationService.createNotification(recipientId, type, ...)
Notification(r, t) == [recipient |-> r, type |-> t]

\* a forEach that stops after the first admin
NotifyAdmins_FirstOnly(t) ==
    [n \in 1..1 |-> Notification(NOfficers + NCitizens + n, t)]

\* admins.forEach(admin => createNotification(admin._id, t, ...))
NotifyAdmins(t) ==
    [n \in 1..NAdmins |-> Notification(NOfficers + NCitizens + n, t)]

\* timestamps: a save that writes a change moves updatedAt
Timestamped(old, new) ==
    IF new # old THEN [new EXCEPT !.modified = TRUE] ELSE new

\* issueSchema.post('save'): the notifications sent for the saved document
IssuePostSave(doc) ==
    (IF ~doc.modified THEN NotifyAdmins("ISSUE_CREATED") ELSE <<>>)
    \o (IF doc.status = "assigned" /\ doc.assignedTo # NoOfficer
        THEN <<Notification(doc.assignedTo, "ISSUE_ASSIGNED"),
               Notification(doc.reportedBy, "ISSUE_ASSIGNED")>>
        ELSE <<>>)
    \o (IF doc.status = "resolved"
        THEN <<Notification(doc.reportedBy, "ISSUE_RESOLVED")>>
        ELSE <<>>)

\* ---------------------------------------------------------------- users
\* userSchema: the stored paths of a User document (role stands for name,
\* email, password, role, location, phone, profileImage, bio, address)
NewUser(role) == [role |-> role]

\* User.findByIdAndUpdate(id, update) under the schema's strict mode: only
\* paths of the schema are written
StrictUpdate(doc, update) ==
    [f \in DOMAIN doc |-> IF f \in DOMAIN update THEN update[f] ELSE doc[f]]

\* no createNotification call in flight
IdleCall == [pc |-> "idle", id |-> 0, push |-> "none", ret |-> "none"]

\* ------------------------------------------------------------------ init
Init ==
    /\ issues = [i \in IssueIds |-> BlankIssue("none")]
    /\ assignments = <<>>
    /\ now = 0
    /\ resp = Response("none", 0)
    /\ pc = [p \in Procs |-> "idle"]
    /\ req = [p \in Procs |-> [issue |-> 0, officer |-> 0]]
    /\ snap = [p \in Procs |-> BlankIssue("none")]
    /\ result = [p \in Procs |-> 0]
    /\ notified = <<>>
    /\ feedbacks = <<>>
    /\ users = [o \in Officers |-> NewUser("officer")]
    /\ notifications = <<>>
    /\ notify = IdleCall
    /\ calendar = "none"

\* --------------------------------------------------------------- clock
Tick ==
    /\ now' = now + 1
    /\ UNCHANGED <<issues, assignments, resp, raceVars, notified, fbVars, noteVars, calendar>>

\* ----------------------------------------------------- issueController
createIssue(c) ==
    /\ \E i \in IssueIds :
        /\ issues[i].life = "none"
        /\ \A j \in IssueIds : j < i => issues[j].life # "none"
        /\ issues' = [issues EXCEPT ![i] = NewIssue(now, c)]
        /\ resp' = Response("createIssue", 201)
        /\ notified' = IssuePostSave(NewIssue(now, c))
    /\ UNCHANGED <<assignments, now, raceVars, fbVars, noteVars, calendar>>

deleteIssue(i) ==
    /\ IF Found(issues, i)
       THEN /\ issues' = [issues EXCEPT ![i] = BlankIssue("deleted")]
            /\ resp' = Response("deleteIssue", 200)
       ELSE /\ issues' = issues
            /\ resp' = Response("deleteIssue", 404)
    /\ notified' = <<>>
    /\ UNCHANGED <<assignments, now, raceVars, fbVars, noteVars, calendar>>

\* The document updateIssue saves: body fields status, assignedTo ("none" and
\* NoOfficer stand for a field absent from the body) and resolutionTime
\* (0 for absent: `resolutionTime || diffInHours` treats both alike).
UpdatedIssue(doc, st, o, ov, t) ==
    LET d1 == IF st # "none" THEN [doc EXCEPT !.status = st] ELSE doc
        d2 == IF st = "resolved" /\ (doc.resolutionTime = NoTime \/ doc.resolutionTime = 0)
              THEN [d1 EXCEPT !.resolutionTime =
                        IF ov # 0 THEN ov ELSE DiffInHours(t, doc.createdAt)]
              ELSE d1
    IN  Timestamped(doc, IF o # NoOfficer THEN [d2 EXCEPT !.assignedTo = o] ELSE d2)

\* req.body.comment when the body has no comment field
NoComment == "undefined"

\* if (comment) issue.comments.push({text: comment, user: req.user._id}):
\* an absent comment and the empty string are both falsy
Commented(doc, c, u) ==
    IF c # NoComment /\ c # ""
    THEN [doc EXCEPT !.comments = Append(@, [text |-> c, user |-> u])]
    ELSE doc

\* updateIssue with req.body.comment = c, sent by user u
updateIssue_comment(i, st, o, ov, c, u) ==
    /\ IF ~Found(issues, i)
       THEN /\ issues' = issues
            /\ resp' = Response("updateIssue", 404)
            /\ notified' = <<>>
       ELSE IF st \notin IssueStatus \cup {"none"}
       THEN \* enum validation fails in issue.save()
            /\ issues' = issues
            /\ resp' = Response("updateIssue", 400)
            /\ notified' = <<>>
       ELSE /\ issues' = [issues EXCEPT ![i] =
                   Timestamped(@, Commented(UpdatedIssue(issues[i], st, o, ov, now), c, u))]
            /\ resp' = Response("updateIssue", 200)
            /\ notified' = IssuePostSave(
                   Timestamped(issues[i],
                               Commented(UpdatedIssue(issues[i], st, o, ov, now), c, u)))
    /\ UNCHANGED <<assignments, now, raceVars, fbVars, noteVars, calendar>>

\* updateIssue with no comment in the body
updateIssue(i, st, o, ov) == updateIssue_comment(i, st, o, ov, NoComment, NoOfficer)

\* ------------------------------------------------ assignmentController
\* Issue.findByIdAndUpdate(id, update) storing doc: no effect when the id is
\* not found; the update also sets updatedAt
UpdateIssueById(iss, i, doc) ==
    IF Found(iss, i) THEN [iss EXCEPT ![i] = [doc EXCEPT !.modified = TRUE]] ELSE iss

AssignedIssue(doc, o) == [doc EXCEPT !.status = "assigned", !.assignedTo = o]
\* an accept that forgets the Issue update
InProgressIssue_Unchanged(doc) == doc
InProgressIssue(doc)  == [doc EXCEPT !.status = "in-progress"]
ResolvedIssue(doc)    == [doc EXCEPT !.status = "resolved"]
OpenedIssue(doc)      == [doc EXCEPT !.status = "open", !.assignedTo = NoOfficer]

\* What the calendar block of a handler can meet: the event is created; the
\* service is disabled (no credentials) and returns null; events.insert
\* fails, which createAssignmentEvent catches, returning null; the lookup of
\* the officer or of the populated assignment rejects; the lookup finds
\* nothing and the call is skipped.
CalendarOutcomes == {"created", "disabled", "insertFails", "lookupThrows", "skipped"}

\* createAssignmentEvent(officer, assignment, issue): event data or null
createAssignmentEvent(cal) ==
    IF cal = "created" THEN "event" ELSE "null"

\* a calendar block without its try/catch
CalendarBlock_Uncaught(cal) ==
    IF cal = "lookupThrows" THEN "raised" ELSE "continues"

\* try { lookup; await CalendarService.createAssignmentEvent(...) }
\* catch (calError) { console.error(...) }
CalendarBlock(cal) ==
    IF cal = "lookupThrows" THEN "continues"      \* caught and logged
    ELSE IF cal = "skipped" THEN "continues"      \* if (officer) not taken
    ELSE IF createAssignmentEvent(cal) = "event"
         THEN "continues"                         \* logged as created
         ELSE "continues"                         \* logged as failed

\* the response after the calendar block: an error raised there reaches the
\* handler's outer catch, which answers 400
Answer(op, code, cal) ==
    IF CalendarBlock(cal) = "raised" THEN Response(op, 400) ELSE Response(op, code)

createAssignment_calendar(i, o, cal) ==
    /\ IF ~Found(issues, i)
       THEN /\ UNCHANGED <<issues, assignments, calendar>>
            /\ notified' = <<>>
            /\ resp' = Response("createAssignment", 404)
       ELSE IF issues[i].status \in {"resolved", "closed"}
       THEN /\ UNCHANGED <<issues, assignments, calendar>>
            /\ notified' = <<>>
            /\ resp' = Response("createAssignment", 400)
       ELSE IF ExistingAssignment(assignments, i)
       THEN /\ UNCHANGED <<issues, assignments, calendar>>
            /\ notified' = <<>>
            /\ resp' = Response("createAssignment", 400)
       ELSE /\ assignments' = Append(assignments, NewAssignment(i, o))
            /\ issues' = [issues EXCEPT ![i] =
                              Timestamped(@, AssignedIssue(issues[i], o))]
            /\ notified' = IssuePostSave(Timestamped(issues[i], AssignedIssue(issues[i], o)))
            /\ calendar' = cal
            /\ resp' = Answer("createAssignment", 201, cal)
    /\ UNCHANGED <<now, raceVars, fbVars, noteVars>>

\* the handler where no calendar credentials are configured
createAssignment(i, o) == createAssignment_calendar(i, o, "disabled")

\* a transition that sets the status and leaves the history alone
Transitioned_NoEntry(a, s) == [a EXCEPT !.status = s]

\* assignment.status = s; assignment.history.push({action: s, ...})
Transitioned(a, s) == [a EXCEPT !.status = s, !.history = Append(@, s)]

acceptAssignment_calendar(k, u, cal) ==
    /\ IF k \notin AsgIds
       THEN /\ UNCHANGED <<issues, assignments, calendar>>
            /\ notified' = <<>>
            /\ resp' = Response("acceptAssignment", 404)
       ELSE IF assignments[k].assignedTo # u
       THEN /\ UNCHANGED <<issues, assignments, calendar>>
            /\ notified' = <<>>
            /\ resp' = Response("acceptAssignment", 403)
       ELSE IF assignments[k].status # "active"
       THEN /\ UNCHANGED <<issues, assignments, calendar>>
            /\ notified' = <<>>
            /\ resp' = Response("acceptAssignment", 400)
       ELSE /\ assignments' = [assignments EXCEPT ![k] = Transitioned(@, "accepted")]
            /\ issues' = UpdateIssueById(issues, assignments[k].issue,
                                         InProgressIssue(issues[assignments[k].issue]))
            /\ calendar' = cal
            /\ notified' = IF CalendarBlock(cal) = "raised" THEN <<>>
                           ELSE NotifyAdmins("ASSIGNMENT_ACCEPTED")
            /\ resp' = Answer("acceptAssignment", 200, cal)
    /\ UNCHANGED <<now, raceVars, fbVars, noteVars>>

acceptAssignment(k, u) == acceptAssignment_calendar(k, u, "disabled")

reassignIssue_calendar(k, o, cal) ==
    /\ IF k \notin AsgIds
       THEN /\ UNCHANGED <<issues, assignments, calendar>>
            /\ notified' = <<>>
            /\ resp' = Response("reassignIssue", 404)
       ELSE IF assignments[k].status \in {"completed", "cancelled"}
       THEN /\ UNCHANGED <<issues, assignments, calendar>>
            /\ notified' = <<>>
            /\ resp' = Response("reassignIssue", 400)
       ELSE /\ assignments' =
                 Append([assignments EXCEPT ![k] = Transitioned(@, "reassigned")],
                        NewAssignment(assignments[k].issue, o))
            /\ issues' = UpdateIssueById(issues, assignments[k].issue,
                                         AssignedIssue(issues[assignments[k].issue], o))
            /\ calendar' = cal
            /\ notified' = IF CalendarBlock(cal) = "raised" THEN <<>>
                           ELSE <<Notification(o, "ASSIGNMENT_REASSIGNED"),
                                  Notification(assignments[k].assignedTo,
                                               "ASSIGNMENT_REASSIGNED")>>
            /\ resp' = Answer("reassignIssue", 200, cal)
    /\ UNCHANGED <<now, raceVars, fbVars, noteVars>>

reassignIssue(k, o) == reassignIssue_calendar(k, o, "disabled")

\* a complete that trusts its caller
completeAssignment_Unchecked(k, u) ==
    /\ IF k \notin AsgIds
       THEN /\ UNCHANGED <<issues, assignments>>
            /\ notified' = <<>>
            /\ resp' = Response("completeAssignment", 404)
       ELSE /\ assignments' = [assignments EXCEPT ![k] = Transitioned(@, "completed")]
            /\ issues' = UpdateIssueById(issues, assignments[k].issue,
                                         ResolvedIssue(issues[assignments[k].issue]))
            /\ notified' = <<>>
            /\ resp' = Response("completeAssignment", 200)
    /\ UNCHANGED <<now, raceVars, fbVars, noteVars, calendar>>

completeAssignment(k, u) ==
    /\ IF k \notin AsgIds
       THEN /\ UNCHANGED <<issues, assignments>>
            /\ notified' = <<>>
            /\ resp' = Response("completeAssignment", 404)
       ELSE IF assignments[k].assignedTo # u
       THEN /\ UNCHANGED <<issues, assignments>>
            /\ notified' = <<>>
            /\ resp' = Response("completeAssignment", 403)
       ELSE /\ assignments' = [assignments EXCEPT ![k] = Transitioned(@, "completed")]
            /\ issues' = UpdateIssueById(issues, assignments[k].issue,
                                         ResolvedIssue(issues[assignments[k].issue]))
            /\ notified' = <<>>
            /\ resp' = Response("completeAssignment", 200)
    /\ UNCHANGED <<now, raceVars, fbVars, noteVars, calendar>>

deleteAssignment(k) ==
    /\ IF k \notin AsgIds
       THEN /\ UNCHANGED <<issues, assignments>>
            /\ notified' = <<>>
            /\ resp' = Response("deleteAssignment", 404)
       ELSE /\ assignments' = [assignments EXCEPT ![k].status = "cancelled"]
            /\ issues' = UpdateIssueById(issues, assignments[k].issue,
                                         OpenedIssue(issues[assignments[k].issue]))
            /\ notified' = <<>>
            /\ resp' = Response("deleteAssignment", 200)
    /\ UNCHANGED <<now, raceVars, fbVars, noteVars, calendar>>

\* -------------------------------------------------- feedbackController
\* A removed feedback document holds the blank document; findById returns
\* null for it.
BlankFeedback ==
    [life |-> "deleted", issue |-> 0, officer |-> NoOfficer, citizen |-> 0,
     rating |-> 0, isAnonymous |-> FALSE, status |-> "pending", replies |-> 0]

\* new Feedback({issue, officer: issue.assignedTo, citizen, rating, ...})
NewFeedback(i, o, c, r, an) ==
    [life |-> "live", issue |-> i, officer |-> o, citizen |-> c,
     rating |-> r, isAnonymous |-> an, status |-> "pending", replies |-> 0]

FbIds == 1..Len(feedbacks)

FoundFb(fbs, f) == f \in 1..Len(fbs) /\ fbs[f].life = "live"

\* rating: required, min 1, max 5 (0 stands for a rating absent from the body)
ValidRating(r) == r \in MinRating..MaxRating

\* a collection whose index on {citizen, issue} is not unique
DuplicateKey_NotUnique(fbs, c, i) == FALSE

\* the unique index {citizen: 1, issue: 1}: an insert raises E11000
DuplicateKey(fbs, c, i) ==
    \E f \in 1..Len(fbs) :
        fbs[f].life = "live" /\ fbs[f].citizen = c /\ fbs[f].issue = i

RECURSIVE GCD(_, _)
GCD(a, b) == IF b = 0 THEN a ELSE GCD(b, a % b)

\* the quotient n/d in lowest terms
Fraction(n, d) == <<n \div GCD(n, d), d \div GCD(n, d)>>

RECURSIVE SumRating(_, _)
SumRating(fbs, S) ==
    IF S = {} THEN 0
    ELSE LET f == CHOOSE x \in S : TRUE
         IN  fbs[f].rating + SumRating(fbs, S \ {f})

\* Feedback.getOfficerAverageRating(officerId)
getOfficerAverageRating(fbs, o) ==
    LET S == {f \in 1..Len(fbs) :
                 fbs[f].life = "live" /\ fbs[f].officer = o
                 /\ fbs[f].status = "approved"}
    IN  IF S = {}
        THEN [avgRating |-> Fraction(0, 1), count |-> 0]
        ELSE [avgRating |-> Fraction(SumRating(fbs, S), Cardinality(S)),
              count |-> Cardinality(S)]

\* a submit that checks the caller before the Issue's status
createFeedback_OwnerFirst(i, c, r, an) ==
    /\ IF ~Found(issues, i)
       THEN /\ UNCHANGED feedbacks
            /\ notified' = <<>>
            /\ resp' = Response("createFeedback", 404)
       ELSE IF issues[i].reportedBy # c
       THEN /\ UNCHANGED feedbacks
            /\ notified' = <<>>
            /\ resp' = Response("createFeedback", 403)
       ELSE IF issues[i].status \notin {"resolved", "closed"}
       THEN /\ UNCHANGED feedbacks
            /\ notified' = <<>>
            /\ resp' = Response("createFeedback", 400)
       ELSE IF issues[i].assignedTo = NoOfficer
       THEN /\ UNCHANGED feedbacks
            /\ notified' = <<>>
            /\ resp' = Response("createFeedback", 400)
       ELSE IF ~ValidRating(r) \/ DuplicateKey(feedbacks, c, i)
       THEN /\ UNCHANGED feedbacks
            /\ notified' = <<>>
            /\ resp' = Response("createFeedback", 400)
       ELSE /\ feedbacks' = Append(feedbacks,
                                   NewFeedback(i, issues[i].assignedTo, c, r, an))
            /\ notified' = <<Notification(issues[i].assignedTo, "FEEDBACK_RECEIVED")>>
            /\ resp' = Response("createFeedback", 201)
    /\ UNCHANGED <<issues, assignments, now, raceVars, users, noteVars, calendar>>

createFeedback(i, c, r, an) ==
    /\ IF ~Found(issues, i)
       THEN /\ UNCHANGED feedbacks
            /\ notified' = <<>>
            /\ resp' = Response("createFeedback", 404)
       ELSE IF issues[i].status \notin {"resolved", "closed"}
       THEN /\ UNCHANGED feedbacks
            /\ notified' = <<>>
            /\ resp' = Response("createFeedback", 400)
       ELSE IF issues[i].reportedBy # c
       THEN /\ UNCHANGED feedbacks
            /\ notified' = <<>>
            /\ resp' = Response("createFeedback", 403)
       ELSE IF issues[i].assignedTo = NoOfficer
       THEN /\ UNCHANGED feedbacks
            /\ notified' = <<>>
            /\ resp' = Response("createFeedback", 400)
       ELSE IF ~ValidRating(r) \/ DuplicateKey(feedbacks, c, i)
       THEN \* feedback.save() throws: ValidationError, or E11000
            /\ UNCHANGED feedbacks
            /\ notified' = <<>>
            /\ resp' = Response("createFeedback", 400)
       ELSE /\ feedbacks' = Append(feedbacks,
                                   NewFeedback(i, issues[i].assignedTo, c, r, an))
            /\ notified' = <<Notification(issues[i].assignedTo, "FEEDBACK_RECEIVED")>>
            /\ resp' = Response("createFeedback", 201)
    /\ UNCHANGED <<issues, assignments, now, raceVars, users, noteVars, calendar>>

\* an update that derives the officer again, from a body without one
UpdatedFeedback_OfficerFromBody(doc, r, an) ==
    [doc EXCEPT !.rating = IF r # 0 THEN r ELSE @,
                !.isAnonymous = IF an # "absent" THEN an = "true" ELSE @,
                !.officer = NoOfficer]

\* feedback.rating = req.body.rating || feedback.rating; isAnonymous is
\* taken from the body unless undefined ("absent")
UpdatedFeedback(doc, r, an) ==
    [doc EXCEPT !.rating = IF r # 0 THEN r ELSE @,
                !.isAnonymous = IF an # "absent" THEN an = "true" ELSE @]

\* if (feedback.status === 'approved') return 400
Updatable(doc) == doc.status # "approved"

updateFeedback(f, u, r, an) ==
    /\ IF ~FoundFb(feedbacks, f)
       THEN /\ UNCHANGED feedbacks
            /\ resp' = Response("updateFeedback", 404)
       ELSE IF feedbacks[f].citizen # u
       THEN /\ UNCHANGED feedbacks
            /\ resp' = Response("updateFeedback", 403)
       ELSE IF ~Updatable(feedbacks[f])
       THEN /\ UNCHANGED feedbacks
            /\ resp' = Response("updateFeedback", 400)
       ELSE IF ~ValidRating(UpdatedFeedback(feedbacks[f], r, an).rating)
       THEN \* feedback.save() throws ValidationError
            /\ UNCHANGED feedbacks
            /\ resp' = Response("updateFeedback", 400)
       ELSE /\ feedbacks' = [feedbacks EXCEPT ![f] = UpdatedFeedback(@, r, an)]
            /\ resp' = Response("updateFeedback", 200)
    /\ notified' = <<>>
    /\ UNCHANGED <<issues, assignments, now, raceVars, users, noteVars, calendar>>

deleteFeedback(f, u) ==
    /\ IF ~FoundFb(feedbacks, f)
       THEN /\ UNCHANGED feedbacks
            /\ resp' = Response("deleteFeedback", 404)
       ELSE IF u \notin Admins /\ feedbacks[f].citizen # u
       THEN /\ UNCHANGED feedbacks
            /\ resp' = Response("deleteFeedback", 403)
       ELSE /\ feedbacks' = [feedbacks EXCEPT ![f] = BlankFeedback]
            /\ resp' = Response("deleteFeedback", 200)
    /\ notified' = <<>>
    /\ UNCHANGED <<issues, assignments, now, raceVars, users, noteVars, calendar>>

\* User.findByIdAndUpdate(officer, {avgRating, feedbackCount}): no effect
\* when the id is not found
UpdateUserById(us, o, update) ==
    IF o \in DOMAIN us THEN [us EXCEPT ![o] = StrictUpdate(@, update)] ELSE us

approveFeedback(f) ==
    /\ IF ~FoundFb(feedbacks, f)
       THEN /\ UNCHANGED <<feedbacks, users>>
            /\ notified' = <<>>
            /\ resp' = Response("approveFeedback", 404)
       ELSE /\ feedbacks' = [feedbacks EXCEPT ![f].status = "approved"]
            /\ users' = UpdateUserById(users, feedbacks[f].officer,
                  [avgRating |->
                      getOfficerAverageRating(feedbacks', feedbacks[f].officer).avgRating,
                   feedbackCount |->
                      getOfficerAverageRating(feedbacks', feedbacks[f].officer).count])
            /\ notified' = <<Notification(feedbacks[f].citizen, "FEEDBACK_APPROVED")>>
            /\ resp' = Response("approveFeedback", 200)
    /\ UNCHANGED <<issues, assignments, now, raceVars, noteVars, calendar>>

rejectFeedback(f) ==
    /\ IF ~FoundFb(feedbacks, f)
       THEN /\ UNCHANGED feedbacks
            /\ resp' = Response("rejectFeedback", 404)
       ELSE /\ feedbacks' = [feedbacks EXCEPT ![f].status = "rejected"]
            /\ resp' = Response("rejectFeedback", 200)
    /\ notified' = <<>>
    /\ UNCHANGED <<issues, assignments, now, raceVars, users, noteVars, calendar>>

addReply(f, u) ==
    /\ IF ~FoundFb(feedbacks, f)
       THEN /\ UNCHANGED feedbacks
            /\ notified' = <<>>
            /\ resp' = Response("addReply", 404)
       ELSE IF u \notin Admins /\ feedbacks[f].officer # u
       THEN /\ UNCHANGED feedbacks
            /\ notified' = <<>>
            /\ resp' = Response("addReply", 403)
       ELSE /\ feedbacks' = [feedbacks EXCEPT ![f].replies = @ + 1]
            /\ notified' = <<Notification(feedbacks[f].citizen, "SYSTEM_ALERT")>>
            /\ resp' = Response("addReply", 201)
    /\ UNCHANGED <<issues, assignments, now, raceVars, users, noteVars, calendar>>

\* ------------------------------------ createAssignment, await by await
\* issue.save() writes the paths whose value differs from the loaded document
SavedIssue(cur, loaded, edited) ==
    [f \in DOMAIN cur |-> IF edited[f] # loaded[f] THEN edited[f] ELSE cur[f]]

\* const issue = await Issue.findById(issueId), and the two checks on it
createAssignment_findById(p, i, o) ==
    /\ pc[p] = "idle"
    /\ req' = [req EXCEPT ![p] = [issue |-> i, officer |-> o]]
    /\ IF ~Found(issues, i)
       THEN /\ pc' = [pc EXCEPT ![p] = "done"]
            /\ result' = [result EXCEPT ![p] = 404]
            /\ snap' = snap
       ELSE IF issues[i].status \in {"resolved", "closed"}
       THEN /\ pc' = [pc EXCEPT ![p] = "done"]
            /\ result' = [result EXCEPT ![p] = 400]
            /\ snap' = snap
       ELSE /\ pc' = [pc EXCEPT ![p] = "findOne"]
            /\ snap' = [snap EXCEPT ![p] = issues[i]]
            /\ result' = result
    /\ UNCHANGED <<issues, assignments, now, resp, notified, fbVars, noteVars, calendar>>

\* const existingAssignment = await Assignment.findOne(...)
createAssignment_findOne(p) ==
    /\ pc[p] = "findOne"
    /\ IF ExistingAssignment(assignments, req[p].issue)
       THEN /\ pc' = [pc EXCEPT ![p] = "done"]
            /\ result' = [result EXCEPT ![p] = 400]
       ELSE /\ pc' = [pc EXCEPT ![p] = "saveAssignment"]
            /\ result' = result
    /\ UNCHANGED <<issues, assignments, now, resp, req, snap, notified, fbVars, noteVars, calendar>>

\* await assignment.save()
createAssignment_saveAssignment(p) ==
    /\ pc[p] = "saveAssignment"
    /\ assignments' = Append(assignments, NewAssignment(req[p].issue, req[p].officer))
    /\ pc' = [pc EXCEPT ![p] = "saveIssue"]
    /\ UNCHANGED <<issues, now, resp, req, snap, result, notified, fbVars, noteVars, calendar>>

\* issue.status = 'assigned'; issue.assignedTo = assignedTo; await issue.save()
createAssignment_saveIssue(p) ==
    /\ pc[p] = "saveIssue"
    /\ IF Found(issues, req[p].issue)
       THEN /\ issues' = [issues EXCEPT ![req[p].issue] =
                   SavedIssue(@, snap[p],
                              Timestamped(snap[p], AssignedIssue(snap[p], req[p].officer)))]
            /\ notified' = IssuePostSave(
                   Timestamped(snap[p], AssignedIssue(snap[p], req[p].officer)))
            /\ result' = [result EXCEPT ![p] = 201]
       ELSE \* DocumentNotFoundError, caught
            /\ issues' = issues
            /\ notified' = <<>>
            /\ result' = [result EXCEPT ![p] = 400]
    /\ pc' = [pc EXCEPT ![p] = "done"]
    /\ UNCHANGED <<assignments, now, resp, req, snap, fbVars, noteVars, calendar>>

\* ------------------- acceptAssignment and deleteAssignment, await by await
\* const assignment = await Assignment.findById(req.params.id), and the
\* checks on the loaded document
acceptAssignment_findById(p, k, u) ==
    /\ pc[p] = "idle"
    /\ req' = [req EXCEPT ![p] = [issue |-> k, officer |-> u]]
    /\ IF k \notin AsgIds
       THEN /\ pc' = [pc EXCEPT ![p] = "done"]
            /\ result' = [result EXCEPT ![p] = 404]
            /\ snap' = snap
       ELSE IF assignments[k].assignedTo # u
       THEN /\ pc' = [pc EXCEPT ![p] = "done"]
            /\ result' = [result EXCEPT ![p] = 403]
            /\ snap' = snap
       ELSE IF assignments[k].status # "active"
       THEN /\ pc' = [pc EXCEPT ![p] = "done"]
            /\ result' = [result EXCEPT ![p] = 400]
            /\ snap' = snap
       ELSE /\ pc' = [pc EXCEPT ![p] = "saveAccepted"]
            /\ snap' = [snap EXCEPT ![p] = assignments[k]]
            /\ result' = result
    /\ UNCHANGED <<issues, assignments, now, resp, notified, fbVars, noteVars, calendar>>

\* assignment.save(): $set of status when it differs from the loaded value,
\* $push of the new history entries, on the document as it is stored now
SavedAssignment(cur, loaded, s, entries) ==
    [cur EXCEPT !.status = IF s # loaded.status THEN s ELSE @,
                !.history = @ \o entries]

\* assignment.status = 'accepted'; assignment.history.push({action:
\* 'accepted', ...}); await assignment.save()
acceptAssignment_save(p) ==
    /\ pc[p] = "saveAccepted"
    /\ assignments' = [assignments EXCEPT ![req[p].issue] =
                          SavedAssignment(@, snap[p], "accepted", <<"accepted">>)]
    /\ pc' = [pc EXCEPT ![p] = "issueInProgress"]
    /\ UNCHANGED <<issues, now, resp, req, snap, result, notified, fbVars, noteVars, calendar>>

\* await Issue.findByIdAndUpdate(assignment.issue, {status: 'in-progress'}),
\* then the notifications to the admins and res.json(assignment)
acceptAssignment_updateIssue(p) ==
    /\ pc[p] = "issueInProgress"
    /\ issues' = UpdateIssueById(issues, snap[p].issue,
                                 InProgressIssue(issues[snap[p].issue]))
    /\ notified' = NotifyAdmins("ASSIGNMENT_ACCEPTED")
    /\ result' = [result EXCEPT ![p] = 200]
    /\ pc' = [pc EXCEPT ![p] = "done"]
    /\ UNCHANGED <<assignments, now, resp, req, snap, fbVars, noteVars, calendar>>

\* const assignment = await Assignment.findById(req.params.id)
deleteAssignment_findById(p, k) ==
    /\ pc[p] = "idle"
    /\ req' = [req EXCEPT ![p] = [issue |-> k, officer |-> NoOfficer]]
    /\ IF k \notin AsgIds
       THEN /\ pc' = [pc EXCEPT ![p] = "done"]
            /\ result' = [result EXCEPT ![p] = 404]
            /\ snap' = snap
       ELSE /\ pc' = [pc EXCEPT ![p] = "saveCancelled"]
            /\ snap' = [snap EXCEPT ![p] = assignments[k]]
            /\ result' = result
    /\ UNCHANGED <<issues, assignments, now, resp, notified, fbVars, noteVars, calendar>>

\* assignment.status = 'cancelled'; await assignment.save()
deleteAssignment_save(p) ==
    /\ pc[p] = "saveCancelled"
    /\ assignments' = [assignments EXCEPT ![req[p].issue] =
                          SavedAssignment(@, snap[p], "cancelled", <<>>)]
    /\ pc' = [pc EXCEPT ![p] = "issueOpen"]
    /\ UNCHANGED <<issues, now, resp, req, snap, result, notified, fbVars, noteVars, calendar>>

\* await Issue.findByIdAndUpdate(assignment.issue, {status: 'open',
\* $unset: {assignedTo: 1}}), then res.json
deleteAssignment_updateIssue(p) ==
    /\ pc[p] = "issueOpen"
    /\ issues' = UpdateIssueById(issues, snap[p].issue,
                                 OpenedIssue(issues[snap[p].issue]))
    /\ notified' = <<>>
    /\ result' = [result EXCEPT ![p] = 200]
    /\ pc' = [pc EXCEPT ![p] = "done"]
    /\ UNCHANGED <<assignments, now, resp, req, snap, fbVars, noteVars, calendar>>

\* -------------------------------------- createFeedback, await by await
\* const issue = await Issue.findById(issueId), and the checks on it
createFeedback_findById(p, i, c, r) ==
    /\ pc[p] = "idle"
    /\ req' = [req EXCEPT ![p] = [issue |-> i, citizen |-> c, rating |-> r]]
    /\ IF ~Found(issues, i)
       THEN /\ pc' = [pc EXCEPT ![p] = "done"]
            /\ result' = [result EXCEPT ![p] = 404]
            /\ snap' = snap
       ELSE IF issues[i].status \notin {"resolved", "closed"}
       THEN /\ pc' = [pc EXCEPT ![p] = "done"]
            /\ result' = [result EXCEPT ![p] = 400]
            /\ snap' = snap
       ELSE IF issues[i].reportedBy # c
       THEN /\ pc' = [pc EXCEPT ![p] = "done"]
            /\ result' = [result EXCEPT ![p] = 403]
            /\ snap' = snap
       ELSE IF issues[i].assignedTo = NoOfficer
       THEN /\ pc' = [pc EXCEPT ![p] = "done"]
            /\ result' = [result EXCEPT ![p] = 400]
            /\ snap' = snap
       ELSE /\ pc' = [pc EXCEPT ![p] = "saveFeedback"]
            /\ snap' = [snap EXCEPT ![p] = issues[i]]
            /\ result' = result
    /\ UNCHANGED <<issues, assignments, now, resp, notified, fbVars, noteVars, calendar>>

\* await feedback.save(): the insert is checked against the unique index;
\* then the officer is notified and 201 is sent
createFeedback_save(p) ==
    /\ pc[p] = "saveFeedback"
    /\ IF \/ ~ValidRating(req[p].rating)
          \/ DuplicateKey(feedbacks, req[p].citizen, req[p].issue)
       THEN /\ UNCHANGED feedbacks
            /\ notified' = <<>>
            /\ result' = [result EXCEPT ![p] = 400]
       ELSE /\ feedbacks' = Append(feedbacks,
                   NewFeedback(req[p].issue, snap[p].assignedTo,
                               req[p].citizen, req[p].rating, FALSE))
            /\ notified' = <<Notification(snap[p].assignedTo, "FEEDBACK_RECEIVED")>>
            /\ result' = [result EXCEPT ![p] = 201]
    /\ pc' = [pc EXCEPT ![p] = "done"]
    /\ UNCHANGED <<issues, assignments, now, resp, req, snap, users, noteVars, calendar>>

\* ------------------------- createNotification, await by await
\* notificationSchema.type enum
NotificationTypes ==
    {"ISSUE_CREATED", "ISSUE_ASSIGNED", "ISSUE_RESOLVED", "ASSIGNMENT_ACCEPTED",
     "ASSIGNMENT_REASSIGNED", "FEEDBACK_RECEIVED", "FEEDBACK_APPROVED",
     "REPORT_GENERATED", "SYSTEM_ALERT"}

\* Notification.create({recipient, type, ...}): isRead defaults to false
NewNotification(r, t) == [recipient |-> r, type |-> t, isRead |-> FALSE]

\* what socket.getIO() and io.to(room).emit(...) can do
PushOutcomes == {"emitted", "noSubscriber", "throws"}

\* a createNotification without its try/catch
Returned_Uncaught(outcome) ==
    IF outcome = "throws" THEN "raised" ELSE "notification"

\* return notification, or the catch block: console.error, return undefined
Returned(outcome) ==
    IF outcome = "throws" THEN "undefined" ELSE "notification"

\* const notification = await Notification.create({...})
createNotification_create(r, t) ==
    /\ notify.pc \in {"idle", "returned"}
    /\ IF t \in NotificationTypes
       THEN /\ notifications' = Append(notifications, NewNotification(r, t))
            /\ notify' = [pc |-> "emit", id |-> Len(notifications) + 1,
                          push |-> "none", ret |-> "none"]
       ELSE \* ValidationError, caught
            /\ notifications' = notifications
            /\ notify' = [pc |-> "returned", id |-> 0,
                          push |-> "none", ret |-> Returned("throws")]
    /\ UNCHANGED <<issues, assignments, now, resp, raceVars, notified, fbVars, calendar>>

\* const io = socket.getIO(); io.to('user_' + recipientId).emit(...)
createNotification_emit(outcome) ==
    /\ notify.pc = "emit"
    /\ notify' = [notify EXCEPT !.pc = "returned", !.push = outcome,
                                !.ret = Returned(outcome)]
    /\ UNCHANGED <<issues, assignments, now, resp, raceVars, notified, fbVars,
                   notifications, calendar>>

\* ------------------------------------------ reading and marking as read
\* a findOneAndUpdate that filters on _id alone
MarkedRead_AnyRecipient(ns, n, u) ==
    IF n \in 1..Len(ns)
    THEN [ns EXCEPT ![n].isRead = TRUE]
    ELSE ns

\* Notification.findOneAndUpdate({_id: n, recipient: u}, {isRead: true})
MarkedRead(ns, n, u) ==
    IF n \in 1..Len(ns) /\ ns[n].recipient = u
    THEN [ns EXCEPT ![n].isRead = TRUE]
    ELSE ns

\* Notification.updateMany({recipient: u, isRead: false}, {isRead: true})
AllMarkedRead(ns, u) ==
    [n \in 1..Len(ns) |->
        IF ns[n].recipient = u /\ ~ns[n].isRead
        THEN [ns[n] EXCEPT !.isRead = TRUE]
        ELSE ns[n]]

\* PATCH /api/notifications/:id/read, req.user._id = u
markAsRead(n, u) ==
    /\ notifications' = MarkedRead(notifications, n, u)
    /\ resp' = Response("markAsRead",
                        IF n \in 1..Len(notifications)
                           /\ notifications[n].recipient = u
                        THEN 200 ELSE 404)
    /\ UNCHANGED <<issues, assignments, now, raceVars, notified, fbVars, notify, calendar>>

\* POST /api/notifications/bulk-read, req.user._id = u
markAllRead(u) ==
    /\ notifications' = AllMarkedRead(notifications, u)
    /\ resp' = Response("markAllRead", 200)
    /\ UNCHANGED <<issues, assignments, now, raceVars, notified, fbVars, notify, calendar>>

\* socket.on('markAsRead', {notificationId: n, userId: u}); it answers
\* with the event notificationRead whatever the update matched
onMarkAsRead(n, u) ==
    /\ notifications' = MarkedRead(notifications, n, u)
    /\ resp' = Response("notificationRead", 0)
    /\ UNCHANGED <<issues, assignments, now, raceVars, notified, fbVars, notify, calendar>>


\* ------------------------------------------------------ specifications
\* The collections and the clock are unbounded in the program; a step is
\* explored only if the state it reaches is within the bounds.
Within(nAsg, nHist) ==
    /\ Len(assignments) <= nAsg
    /\ \A k \in AsgIds : Len(assignments[k].history) <= nHist

UpdateBodies(ovs) ==
    {<<st, o, ov>> : st \in IssueStatus \cup {"none", "bogus"},
                     o \in Officers \cup {NoOfficer}, ov \in ovs}

\* Spec: every handler, one request at a time.
Next ==
    \/ \E c \in Reporters : createIssue(c)
    \/ \E i \in IssueIds : deleteIssue(i)
    \/ \E i \in IssueIds, b \in UpdateBodies({0}) : updateIssue(i, b[1], b[2], b[3])
    \/ \E i \in IssueIds, o \in Officers :
          createAssignment(i, o) /\ Within(MaxAsg, MaxHist)'
    \/ \E k \in 1..MaxAsg, u \in Users :
          acceptAssignment(k, u) /\ Within(MaxAsg, MaxHist)'
    \/ \E k \in 1..MaxAsg, o \in Officers :
          reassignIssue(k, o) /\ Within(MaxAsg, MaxHist)'
    \/ \E k \in 1..MaxAsg, u \in Users :
          completeAssignment(k, u) /\ Within(MaxAsg, MaxHist)'
    \/ \E k \in 1..MaxAsg : deleteAssignment(k)

Spec == Init /\ [][Next]_vars

\* SpecChain: the handlers that create and hand over assignments, with room
\* for a chain of MaxChain assignment documents.
NextChain ==
    \/ \E c \in Reporters : createIssue(c)
    \/ \E i \in IssueIds, o \in Officers :
          createAssignment(i, o) /\ Within(MaxChain, MaxHist)'
    \/ \E k \in 1..MaxChain, u \in Officers :
          acceptAssignment(k, u) /\ Within(MaxChain, MaxHist)'
    \/ \E k \in 1..MaxChain, o \in Officers :
          reassignIssue(k, o) /\ Within(MaxChain, MaxHist)'
    \/ \E k \in 1..MaxChain : deleteAssignment(k)

SpecChain == Init /\ [][NextChain]_vars

\* SpecTime: the clock runs; the handlers that resolve an issue.
NextTime ==
    \/ Tick /\ now' <= MaxNow
    \/ \E c \in Reporters : createIssue(c)
    \/ \E i \in IssueIds, b \in UpdateBodies(0..MaxOverride) : updateIssue(i, b[1], b[2], b[3])
    \/ \E i \in IssueIds, o \in Officers :
          createAssignment(i, o) /\ Within(MaxAsg, MaxHist)'
    \/ \E k \in 1..MaxAsg, u \in Users :
          completeAssignment(k, u) /\ Within(MaxAsg, MaxHist)'

SpecTime == Init /\ [][NextTime]_vars

\* SpecRace: two createAssignment requests in flight at once.
NextRace ==
    \/ \E c \in Reporters : createIssue(c)
    \/ \E p \in Procs, i \in IssueIds, o \in Officers : createAssignment_findById(p, i, o)
    \/ \E p \in Procs : createAssignment_findOne(p)
    \/ \E p \in Procs : createAssignment_saveAssignment(p) /\ Within(MaxAsg, MaxHist)'
    \/ \E p \in Procs : createAssignment_saveIssue(p)

SpecRace == Init /\ [][NextRace]_vars

\* SpecAbort: SpecRace with deleteIssue arriving between the awaits.
NextAbort ==
    \/ \E c \in Reporters : createIssue(c)
    \/ \E i \in IssueIds : deleteIssue(i)
    \/ \E p \in Procs, i \in IssueIds, o \in Officers : createAssignment_findById(p, i, o)
    \/ \E p \in Procs : createAssignment_findOne(p)
    \/ \E p \in Procs : createAssignment_saveAssignment(p) /\ Within(MaxAsg, MaxHist)'
    \/ \E p \in Procs : createAssignment_saveIssue(p)

SpecAbort == Init /\ [][NextAbort]_vars

\* SpecInterleave: an acceptAssignment and a deleteAssignment served at the
\* same time, on Assignments that createAssignment has stored.
NextInterleave ==
    \/ \E c \in Reporters : createIssue(c)
    \/ \E i \in IssueIds, o \in Officers :
          createAssignment(i, o) /\ Within(MaxAsg, MaxHist)'
    \/ \E p \in Procs, k \in 1..MaxAsg, u \in Officers : acceptAssignment_findById(p, k, u)
    \/ \E p \in Procs : acceptAssignment_save(p) /\ Within(MaxAsg, MaxHist)'
    \/ \E p \in Procs : acceptAssignment_updateIssue(p)
    \/ \E p \in Procs, k \in 1..MaxAsg : deleteAssignment_findById(p, k)
    \/ \E p \in Procs : deleteAssignment_save(p)
    \/ \E p \in Procs : deleteAssignment_updateIssue(p)

SpecInterleave == Init /\ [][NextInterleave]_vars

\* SpecCalendar: assign, accept and reassign with every outcome of their
\* calendar block.
NextCalendar ==
    \/ \E c \in Reporters : createIssue(c)
    \/ \E i \in IssueIds, o \in Officers, cal \in CalendarOutcomes :
          createAssignment_calendar(i, o, cal) /\ Within(MaxAsg, MaxHist)'
    \/ \E k \in 1..MaxAsg, u \in Officers, cal \in CalendarOutcomes :
          acceptAssignment_calendar(k, u, cal) /\ Within(MaxAsg, MaxHist)'
    \/ \E k \in 1..MaxAsg, o \in Officers, cal \in CalendarOutcomes :
          reassignIssue_calendar(k, o, cal) /\ Within(MaxAsg, MaxHist)'

SpecCalendar == Init /\ [][NextCalendar]_vars

\* SpecComment: updateIssue with and without a comment in the body.
CommentInputs == {NoComment, "", "on site", " "}

CommentWithin == \A i \in IssueIds : Len(issues[i].comments) <= MaxComments

NextComment ==
    \/ \E c \in Reporters : createIssue(c)
    \/ \E i \in IssueIds, b \in UpdateBodies({0}), c \in CommentInputs, u \in Officers :
          updateIssue_comment(i, b[1], b[2], b[3], c, u) /\ CommentWithin'

SpecComment == Init /\ [][NextComment]_vars

\* SpecHistory: the assignment handlers, called by the officers.
NextHistory ==
    \/ \E c \in Reporters : createIssue(c)
    \/ \E i \in IssueIds, o \in Officers :
          createAssignment(i, o) /\ Within(MaxAsg, MaxHist)'
    \/ \E k \in 1..MaxAsg, u \in Officers :
          acceptAssignment(k, u) /\ Within(MaxAsg, MaxHist)'
    \/ \E k \in 1..MaxAsg, o \in Officers :
          reassignIssue(k, o) /\ Within(MaxAsg, MaxHist)'
    \/ \E k \in 1..MaxAsg, u \in Officers :
          completeAssignment(k, u) /\ Within(MaxAsg, MaxHist)'
    \/ \E k \in 1..MaxAsg : deleteAssignment(k)

SpecHistory == Init /\ [][NextHistory]_vars

\* SpecFeedback: the feedback handlers; updateIssue resolves the Issue and
\* sets its officer.
FbWithin ==
    /\ Len(feedbacks) <= MaxFb
    /\ \A f \in FbIds : feedbacks[f].replies <= MaxReplies

RatingInputs == {0, MinRating, MaxRating, MaxRating + 1}

FeedbackIssueBodies ==
    {<<st, o, 0>> : st \in {"none", "resolved"}, o \in Officers \cup {NoOfficer}}

NextFeedback ==
    \/ \E c \in Reporters : createIssue(c)
    \/ \E i \in IssueIds, b \in FeedbackIssueBodies : updateIssue(i, b[1], b[2], b[3])
    \/ \E i \in IssueIds, c \in Citizens, r \in RatingInputs, an \in BOOLEAN :
          createFeedback(i, c, r, an) /\ FbWithin'
    \/ \E f \in 1..MaxFb, u \in Citizens, r \in RatingInputs,
             an \in {"absent", "true", "false"} : updateFeedback(f, u, r, an)
    \/ \E f \in 1..MaxFb, u \in Users : deleteFeedback(f, u)
    \/ \E f \in 1..MaxFb : approveFeedback(f)
    \/ \E f \in 1..MaxFb : rejectFeedback(f)
    \/ \E f \in 1..MaxFb, u \in Users : addReply(f, u) /\ FbWithin'

SpecFeedback == Init /\ [][NextFeedback]_vars

\* SpecOfficer: a feedback on an Issue whose officer is then changed or
\* cleared by the assignment handlers and updateIssue.
NextOfficer ==
    \/ \E c \in Reporters : createIssue(c)
    \/ \E i \in IssueIds, b \in FeedbackIssueBodies : updateIssue(i, b[1], b[2], b[3])
    \/ \E i \in IssueIds, o \in Officers :
          createAssignment(i, o) /\ Within(MaxAsg, MaxHist)'
    \/ \E k \in 1..MaxAsg, o \in Officers :
          reassignIssue(k, o) /\ Within(MaxAsg, MaxHist)'
    \/ \E k \in 1..MaxAsg : deleteAssignment(k)
    \/ \E i \in IssueIds, c \in Reporters, r \in {MinRating} :
          createFeedback(i, c, r, FALSE) /\ FbWithin'
    \/ \E f \in 1..MaxFb, u \in Reporters, r \in {MaxRating} :
          updateFeedback(f, u, r, "absent")
    \/ \E f \in 1..MaxFb : approveFeedback(f)
    \/ \E f \in 1..MaxFb : rejectFeedback(f)
    \/ \E f \in 1..MaxFb, u \in Admins : addReply(f, u) /\ FbWithin'

SpecOfficer == Init /\ [][NextOfficer]_vars

\* SpecSubmit: two createFeedback requests in flight at once.
NextSubmit ==
    \/ \E c \in Reporters : createIssue(c)
    \/ \E i \in IssueIds, b \in FeedbackIssueBodies : updateIssue(i, b[1], b[2], b[3])
    \/ \E p \in Procs, i \in IssueIds, c \in Citizens, r \in {MinRating, MaxRating} :
          createFeedback_findById(p, i, c, r)
    \/ \E p \in Procs : createFeedback_save(p) /\ FbWithin'
    \/ \E f \in 1..MaxFb, u \in Reporters : deleteFeedback(f, u)

SpecSubmit == Init /\ [][NextSubmit]_vars

\* SpecNotify: createNotification calls, one at a time.
NotifWithin == Len(notifications) <= MaxNotif

TypeInputs == {"ISSUE_CREATED", "SYSTEM_ALERT", "BOGUS"}

NextNotify ==
    \/ \E r \in Users, t \in TypeInputs :
          createNotification_create(r, t) /\ NotifWithin'
    \/ \E outcome \in PushOutcomes : createNotification_emit(outcome)
    \/ \E n \in 1..MaxNotif, u \in Users : markAsRead(n, u)
    \/ \E u \in Users : markAllRead(u)
    \/ \E n \in 1..MaxNotif, u \in Users : onMarkAsRead(n, u)

SpecNotify == Init /\ [][NextNotify]_vars

\* ================================================================ claims
LiveAssignments(i) ==
    {k \in AsgIds : assignments[k].issue = i
                    /\ assignments[k].status \in {"active", "accepted"}}

\* C1: every Issue has at most one Assignment whose status is active or
\* accepted, in every state the handlers reach one request at a time.
C1_AtMostOneLiveAssignment ==
    \A i \in IssueIds : Cardinality(LiveAssignments(i)) <= 1

\* C2: two createAssignment requests that both loaded the same Issue while
\* it was open end with exactly one 201 and one 400, and with exactly one
\* active Assignment for that Issue.
C2_RaceHasOneWinner ==
    \A p \in Procs, q \in Procs :
        (/\ p # q
         /\ pc[p] = "done" /\ pc[q] = "done"
         /\ req[p].issue = req[q].issue
         /\ snap[p].life = "live" /\ snap[p].status = "open"
         /\ snap[q].life = "live" /\ snap[q].status = "open")
        => /\ {result[p], result[q]} = {201, 400}
           /\ Cardinality(LiveAssignments(req[p].issue)) = 1

\* C3: no step changes the status or the history of an Assignment whose
\* status is completed, reassigned or cancelled.
C3_TerminalAssignmentFrozen ==
    [][\A k \in AsgIds :
          assignments[k].status \in {"completed", "reassigned", "cancelled"}
          => assignments'[k] = assignments[k]]_vars

ValidIssueEdge(old, new) ==
    \/ old.status = "open" /\ new.status = "assigned"
    \/ old.status = "assigned" /\ new.status = "in-progress"
    \/ old.status = "in-progress" /\ new.status = "resolved"
    \/ old.status # "closed" /\ new.status = "open" /\ new.assignedTo = NoOfficer
    \/ old.status = "resolved" /\ new.status = "closed"

\* C4: every step that changes an Issue's status follows open->assigned,
\* assigned->in-progress, in-progress->resolved, non-terminal->open with
\* assignedTo cleared, or resolved->closed.
C4_IssueStatusEdges ==
    [][\A i \in IssueIds :
          (/\ issues[i].life = "live" /\ issues'[i].life = "live"
           /\ issues'[i].status # issues[i].status)
          => ValidIssueEdge(issues[i], issues'[i])]_vars

ResolvedViaAssignment(i) ==
    /\ issues[i].status \in {"resolved", "closed"}
    /\ \E k \in AsgIds : assignments[k].issue = i /\ assignments[k].status = "completed"

\* C5: an Issue's assignedTo is set if and only if its status is assigned
\* or in-progress, or it is resolved/closed and was resolved through an
\* assignment.
C5_AssignedToIffStatus ==
    \A i \in IssueIds :
        issues[i].life = "live" =>
            ((issues[i].assignedTo # NoOfficer)
             <=> (issues[i].status \in {"assigned", "in-progress"}
                  \/ ResolvedViaAssignment(i)))

\* C6: once an Issue's resolutionTime is set (0 hours included) no step
\* changes it.
C6_ResolutionTimeFrozen ==
    [][\A i \in IssueIds :
          (/\ issues[i].life = "live" /\ issues'[i].life = "live"
           /\ issues[i].resolutionTime # NoTime)
          => issues'[i].resolutionTime = issues[i].resolutionTime]_vars

\* C7: an Issue whose status is resolved has a resolutionTime.
C7_ResolvedHasResolutionTime ==
    \A i \in IssueIds :
        (issues[i].life = "live" /\ issues[i].status = "resolved")
        => issues[i].resolutionTime # NoTime

\* C8: the history of every completed Assignment has an accepted entry
\* before its completed entry.
C8_CompletedOnlyFromAccepted ==
    \A k \in AsgIds :
        assignments[k].status = "completed" =>
            \E a \in DOMAIN assignments[k].history, b \in DOMAIN assignments[k].history :
                /\ a < b
                /\ assignments[k].history[a] = "accepted"
                /\ assignments[k].history[b] = "completed"

ScenarioAssigned(k, i, o) ==
    /\ k \in AsgIds
    /\ assignments[k].issue = i /\ assignments[k].assignedTo = o
    /\ assignments[k].status = "active"
    /\ issues[i].life = "live" /\ issues[i].status = "assigned"
    /\ issues[i].assignedTo = o

ScenarioAccepted(k, i, o) ==
    /\ k \in AsgIds
    /\ assignments[k].issue = i /\ assignments[k].assignedTo = o
    /\ assignments[k].status = "accepted"
    /\ issues[i].life = "live" /\ issues[i].status = "in-progress"
    /\ issues[i].assignedTo = o

ScenarioCompleted(k, i, o) ==
    /\ k \in AsgIds
    /\ assignments[k].issue = i /\ assignments[k].assignedTo = o
    /\ assignments[k].status = "completed"
    /\ issues[i].life = "live" /\ issues[i].status = "resolved"
    /\ issues[i].assignedTo = o

\* C9: createAssignment of officer o on an open Issue with no Assignment
\* leaves a new active Assignment, the Issue assigned to o; acceptAssignment
\* by o in that state leaves it accepted and the Issue in-progress;
\* completeAssignment by o in that state leaves it completed and the Issue
\* resolved, still assigned to o.
C9_AssignAcceptComplete ==
    [][\A i \in IssueIds, o \in Officers, k \in 1..MaxAsg :
          /\ (/\ k = Len(assignments) + 1
              /\ issues[i].life = "live" /\ issues[i].status = "open"
              /\ \A j \in AsgIds : assignments[j].issue # i
              /\ createAssignment(i, o))
             => ScenarioAssigned(k, i, o)'
          /\ (ScenarioAssigned(k, i, o) /\ acceptAssignment(k, o))
             => ScenarioAccepted(k, i, o)'
          /\ (ScenarioAccepted(k, i, o) /\ completeAssignment(k, o))
             => ScenarioCompleted(k, i, o)']_vars

C9_ScenarioDone ==
    \E k \in AsgIds, i \in IssueIds, o \in Officers :
        /\ ScenarioCompleted(k, i, o)
        /\ assignments[k].history = <<"assigned", "accepted", "completed">>
        /\ Len(assignments) = 1
        /\ resp = Response("completeAssignment", 200)

\* C10: createAssignment on an Issue that does not exist, is resolved or
\* closed, or already has an active or accepted Assignment answers with an
\* error (404 for the missing Issue, 400 otherwise) and changes neither the
\* assignments nor the Issue.
C10_AssignRejected ==
    [][\A i \in IssueIds, o \in Officers :
          (/\ \/ issues[i].life # "live"
              \/ issues[i].status \in {"resolved", "closed"}
              \/ LiveAssignments(i) # {}
           /\ createAssignment(i, o))
          => /\ resp' = Response("createAssignment",
                                 IF issues[i].life # "live" THEN 404 ELSE 400)
             /\ assignments' = assignments
             /\ issues' = issues]_vars

C10_DuplicateRejected ==
    \E i \in IssueIds :
        /\ resp = Response("createAssignment", 400)
        /\ issues[i].life = "live"
        /\ issues[i].status \notin {"resolved", "closed"}
        /\ \E k \in LiveAssignments(i) : assignments[k].status = "accepted"

\* C11: acceptAssignment by the assigned officer answers 200 exactly when the
\* Assignment is active; it then leaves the Assignment accepted, its Issue
\* (if the document still exists) in-progress, and has sent every admin an
\* ASSIGNMENT_ACCEPTED notification. In every other status it answers 400
\* and changes neither the assignments nor the issues.
C11_AcceptOnlyWhenActive ==
    [][\A k \in 1..MaxAsg, u \in Officers :
          (/\ k \in AsgIds
           /\ assignments[k].assignedTo = u
           /\ resp'.op = "acceptAssignment"
           /\ acceptAssignment(k, u))
          => IF assignments[k].status = "active"
             THEN /\ resp' = Response("acceptAssignment", 200)
                  /\ assignments'[k].status = "accepted"
                  /\ Found(issues, assignments[k].issue)
                        => issues'[assignments[k].issue].status = "in-progress"
                  /\ \A a \in Admins : \E n \in DOMAIN notified' :
                        notified'[n] = Notification(a, "ASSIGNMENT_ACCEPTED")
             ELSE /\ resp' = Response("acceptAssignment", 400)
                  /\ assignments' = assignments
                  /\ issues' = issues]_vars

C11_AcceptedAndNotified ==
    /\ resp = Response("acceptAssignment", 200)
    /\ \A a \in Admins : \E n \in DOMAIN notified :
          notified[n] = Notification(a, "ASSIGNMENT_ACCEPTED")
    /\ \E k \in AsgIds :
          /\ assignments[k].status = "accepted"
          /\ issues[assignments[k].issue].status = "in-progress"

\* C12: acceptAssignment and completeAssignment called by any account other
\* than the Assignment's assignedTo answer 403 and change neither the
\* assignments nor the issues.
C12_OnlyAssignedOfficer ==
    [][/\ resp'.op = "acceptAssignment"
          => \A k \in 1..MaxAsg, u \in Users :
                (/\ k \in AsgIds
                 /\ assignments[k].assignedTo # u
                 /\ acceptAssignment(k, u))
                => /\ resp' = Response("acceptAssignment", 403)
                   /\ assignments' = assignments
                   /\ issues' = issues
       /\ resp'.op = "completeAssignment"
          => \A k \in 1..MaxAsg, u \in Users :
                (/\ k \in AsgIds
                 /\ assignments[k].assignedTo # u
                 /\ completeAssignment(k, u))
                => /\ resp' = Response("completeAssignment", 403)
                   /\ assignments' = assignments
                   /\ issues' = issues]_vars

C12_ForbiddenSeen ==
    /\ resp = Response("completeAssignment", 403)
    /\ \E k \in AsgIds : assignments[k].status \in {"active", "accepted"}

\* the Assignments of Issue i that have status st once the step is taken
AssignmentsAfter(i, st) ==
    {j \in 1..Len(assignments') :
        assignments'[j].issue = i /\ assignments'[j].status = st}

\* C13: every reassignIssue that is accepted (the Assignment is neither
\* completed nor cancelled) leaves the old Assignment reassigned, a new
\* active Assignment of the new officer, the Issue assigned to the new
\* officer, and exactly one active and no accepted Assignment for the Issue.
C13_ReassignLeavesOneActive ==
    [][resp'.op = "reassignIssue"
       => \A k \in 1..MaxChain, o \in Officers :
             (/\ k \in AsgIds
              /\ assignments[k].status \notin {"completed", "cancelled"}
              /\ reassignIssue(k, o))
             => LET i == assignments[k].issue
                IN  /\ resp' = Response("reassignIssue", 200)
                    /\ assignments'[k].status = "reassigned"
                    /\ assignments'[Len(assignments')] = NewAssignment(i, o)
                    /\ Found(issues, i)
                          => /\ issues'[i].status = "assigned"
                             /\ issues'[i].assignedTo = o
                    /\ Cardinality(AssignmentsAfter(i, "active")) = 1
                    /\ AssignmentsAfter(i, "accepted") = {}]_vars

\* C14: deleteAssignment of an active or accepted Assignment leaves it
\* cancelled and its Issue open with assignedTo cleared; the Issue then has
\* no active or accepted Assignment, so createAssignment accepts it again.
C14_CancelFreesIssue ==
    [][resp'.op = "deleteAssignment"
       => \A k \in 1..MaxChain :
             (/\ k \in AsgIds
              /\ assignments[k].status \in {"active", "accepted"}
              /\ deleteAssignment(k))
             => LET i == assignments[k].issue
                IN  /\ resp' = Response("deleteAssignment", 200)
                    /\ assignments'[k].status = "cancelled"
                    /\ Found(issues, i)
                          => /\ issues'[i].status = "open"
                             /\ issues'[i].assignedTo = NoOfficer
                    /\ AssignmentsAfter(i, "active") = {}
                    /\ AssignmentsAfter(i, "accepted") = {}
                    /\ ~ExistingAssignment(assignments', i)]_vars

UniquePairs(fbs) ==
    \A f \in 1..Len(fbs), g \in 1..Len(fbs) :
        (/\ f # g
         /\ fbs[f].life = "live" /\ fbs[g].life = "live"
         /\ fbs[f].citizen = fbs[g].citizen)
        => fbs[f].issue # fbs[g].issue

\* C15: no two Feedback documents have the same citizen and issue, also
\* when two createFeedback requests interleave; the save of a createFeedback
\* for a pair that already has a Feedback answers 400 and leaves the
\* feedbacks unchanged.
C15_OneFeedbackPerPair ==
    [][/\ UniquePairs(feedbacks')
       /\ \A p \in Procs :
             (/\ pc[p] = "saveFeedback"
              /\ DuplicateKey(feedbacks, req[p].citizen, req[p].issue)
              /\ createFeedback_save(p))
             => /\ result'[p] = 400
                /\ feedbacks' = feedbacks]_vars

C15_ConcurrentSubmitRejected ==
    \E p \in Procs, q \in Procs :
        /\ p # q
        /\ pc[p] = "done" /\ pc[q] = "done"
        /\ result[p] = 201 /\ result[q] = 400
        /\ snap[q].life = "live" /\ snap[p] = snap[q]
        /\ req[p].citizen = req[q].citizen /\ req[p].issue = req[q].issue
        /\ ValidRating(req[q].rating)
        /\ Cardinality({f \in FbIds : feedbacks[f].life = "live"}) = 1

\* the four conditions of a submit, on Issue i for caller c
SubmitAllowed(i, c) ==
    /\ Found(issues, i)
    /\ issues[i].status \in {"resolved", "closed"}
    /\ issues[i].reportedBy = c
    /\ issues[i].assignedTo # NoOfficer

\* the error of the first condition that fails
SubmitError(i, c) ==
    IF ~Found(issues, i) THEN 404
    ELSE IF issues[i].status \notin {"resolved", "closed"} THEN 400
    ELSE IF issues[i].reportedBy # c THEN 403
    ELSE 400

\* C16: createFeedback inserts a Feedback, with status pending, only if the
\* Issue exists, is resolved or closed, was reported by the caller and has an
\* assignedTo; otherwise it answers with the error of the first of these
\* that fails (404, 400, 403, 400), inserts nothing and notifies nobody.
C16_SubmitChecksInOrder ==
    [][resp'.op = "createFeedback"
       => \A i \in IssueIds, c \in Citizens, r \in RatingInputs, an \in BOOLEAN :
             createFeedback(i, c, r, an)
             => /\ feedbacks' # feedbacks
                   => /\ SubmitAllowed(i, c)
                      /\ feedbacks' = Append(feedbacks,
                             NewFeedback(i, issues[i].assignedTo, c, r, an))
                      /\ feedbacks'[Len(feedbacks')].status = "pending"
                /\ ~SubmitAllowed(i, c)
                   => /\ resp' = Response("createFeedback", SubmitError(i, c))
                      /\ feedbacks' = feedbacks
                      /\ notified' = <<>>]_vars

C16_NotReporterRejected ==
    /\ resp = Response("createFeedback", 403)
    /\ \E i \in IssueIds :
          /\ issues[i].life = "live" /\ issues[i].status = "resolved"
          /\ issues[i].assignedTo = NoOfficer
    /\ feedbacks = <<>>
    /\ notified = <<>>

\* C17: a Feedback is inserted with officer = the Issue's assignedTo, and no
\* later step (reassignIssue, deleteAssignment, updateIssue, updateFeedback,
\* approveFeedback, rejectFeedback, addReply) changes the officer of a
\* Feedback.
C17_OfficerFixedAtSubmission ==
    [][/\ \A f \in FbIds :
             (feedbacks[f].life = "live" /\ feedbacks'[f].life = "live")
             => feedbacks'[f].officer = feedbacks[f].officer
       /\ Len(feedbacks') > Len(feedbacks)
             => feedbacks'[Len(feedbacks')].officer =
                   issues[feedbacks'[Len(feedbacks')].issue].assignedTo]_vars

C17_IssueOfficerMovedOn ==
    \E f \in FbIds, k \in AsgIds :
        /\ feedbacks[f].life = "live"
        /\ feedbacks[f].officer # NoOfficer
        /\ feedbacks[f].status = "approved"
        /\ feedbacks[f].rating = MaxRating
        /\ feedbacks[f].replies = 1
        /\ assignments[k].status = "reassigned"
        /\ issues[feedbacks[f].issue].assignedTo = NoOfficer
        /\ resp = Response("deleteAssignment", 200)

\* C18: updateFeedback changes a Feedback only when the caller is its
\* citizen and its status is pending; for an approved or rejected Feedback,
\* or another caller, it answers with an error and changes nothing.
C18_UpdateOnlyWhilePending ==
    [][resp'.op = "updateFeedback"
       => \A f \in 1..MaxFb, u \in Citizens, r \in RatingInputs,
             an \in {"absent", "true", "false"} :
             (FoundFb(feedbacks, f) /\ updateFeedback(f, u, r, an))
             => /\ feedbacks' # feedbacks
                   => /\ feedbacks[f].citizen = u
                      /\ feedbacks[f].status = "pending"
                /\ (feedbacks[f].citizen # u \/ feedbacks[f].status # "pending")
                   => /\ resp'.code \in {400, 403}
                      /\ feedbacks' = feedbacks]_vars

\* C19: approveFeedback leaves the Feedback approved, the officer's stored
\* avgRating and feedbackCount equal to the average and the count over the
\* officer's approved Feedback, and has sent the citizen FEEDBACK_APPROVED.
C19_ApprovePersistsAggregate ==
    [][resp'.op = "approveFeedback"
       => \A f \in 1..MaxFb :
             (FoundFb(feedbacks, f) /\ approveFeedback(f))
             => LET o == feedbacks[f].officer
                    stats == getOfficerAverageRating(feedbacks', o)
                IN  /\ resp' = Response("approveFeedback", 200)
                    /\ feedbacks'[f].status = "approved"
                    /\ \E n \in DOMAIN notified' :
                          notified'[n] = Notification(feedbacks[f].citizen,
                                                      "FEEDBACK_APPROVED")
                    /\ "avgRating" \in DOMAIN users'[o]
                    /\ "feedbackCount" \in DOMAIN users'[o]
                    /\ users'[o].avgRating = stats.avgRating
                    /\ users'[o].feedbackCount = stats.count]_vars

\* Notification.find({recipient: r}): the ids of r's notifications
Inbox(r) == {n \in 1..Len(notifications) : notifications[n].recipient = r}

\* C20: when createNotification reaches the live push its Notification is
\* already stored; whatever the push does (emits, finds no subscriber,
\* throws) the stored notifications are unchanged, the call does not raise
\* to its caller, and the record is still in its recipient's inbox.
C20_PushFailureKeepsRecord ==
    [][/\ (notify.pc # "emit" /\ notify'.pc = "emit")
          => /\ notify'.id \in 1..Len(notifications')
             /\ notify'.id \notin 1..Len(notifications)
       /\ \A outcome \in PushOutcomes :
             (notify.pc = "emit" /\ createNotification_emit(outcome))
             => /\ notifications' = notifications
                /\ notify'.ret # "raised"
                /\ notify'.id \in Inbox(notifications[notify.id].recipient)']_vars

C20_PushThrewRecordKept ==
    /\ notify.pc = "returned"
    /\ notify.push = "throws"
    /\ notify.ret = "undefined"
    /\ notify.id \in Inbox(notifications[notify.id].recipient)

Committing ==
    {p \in Procs : pc[p] = "saveIssue" \/ (pc[p] = "done" /\ result[p] = 201)}

\* C22: createAssignment is all-or-nothing: every stored Assignment was
\* written by a request that is between its two writes or has answered 201,
\* so a request that answered with an error has left no Assignment behind;
\* and once no request is between its writes, no active Assignment has an
\* Issue that is still open and unassigned.
C22_AllOrNothing ==
    /\ Len(assignments) <= Cardinality(Committing)
    /\ (\A p \in Procs : pc[p] # "saveIssue")
       => \A k \in AsgIds :
             assignments[k].status = "active"
             => ~(/\ Found(issues, assignments[k].issue)
                  /\ issues[assignments[k].issue].status = "open"
                  /\ issues[assignments[k].issue].assignedTo = NoOfficer)

\* no accept or cancel request is between its read and its last write
Quiescent == \A p \in Procs : pc[p] \in {"idle", "done"}

\* C23: when acceptAssignment and deleteAssignment are served at the same
\* time, an Assignment stored as cancelled or reassigned is never written
\* to accepted or completed, and once both have answered no Issue is
\* in-progress or resolved with its assignedTo cleared.
C23_AcceptCancelSerializable ==
    [][/\ \A k \in AsgIds :
             assignments[k].status \in {"cancelled", "reassigned"}
             => assignments'[k].status \notin {"accepted", "completed"}
       /\ Quiescent'
          => \A i \in IssueIds :
                (Found(issues', i) /\ issues'[i].status \in {"in-progress", "resolved"})
                => issues'[i].assignedTo # NoOfficer]_vars

\* C24: whatever the calendar block meets (event created, service disabled,
\* insert failing, lookup throwing, nothing to look up), an assign, accept
\* or reassign that passes its checks gives the one success response and the
\* one stored Assignment and Issue that it gives when the event is created.
C24_CalendarFailureHarmless ==
    [][\A cal \in CalendarOutcomes :
          /\ resp'.op = "createAssignment"
             => \A i \in IssueIds, o \in Officers :
                   (/\ Found(issues, i)
                    /\ issues[i].status \notin {"resolved", "closed"}
                    /\ ~ExistingAssignment(assignments, i)
                    /\ createAssignment_calendar(i, o, cal))
                   => /\ resp' = Response("createAssignment", 201)
                      /\ assignments' = Append(assignments, NewAssignment(i, o))
                      /\ issues' = [issues EXCEPT ![i] =
                                       Timestamped(@, AssignedIssue(issues[i], o))]
          /\ resp'.op = "acceptAssignment"
             => \A k \in 1..MaxAsg, u \in Officers :
                   (/\ k \in AsgIds
                    /\ assignments[k].assignedTo = u
                    /\ assignments[k].status = "active"
                    /\ acceptAssignment_calendar(k, u, cal))
                   => /\ resp' = Response("acceptAssignment", 200)
                      /\ assignments' = [assignments EXCEPT ![k] =
                                            Transitioned(@, "accepted")]
                      /\ issues'[assignments[k].issue].status = "in-progress"
                      /\ notified' = NotifyAdmins("ASSIGNMENT_ACCEPTED")
          /\ resp'.op = "reassignIssue"
             => \A k \in 1..MaxAsg, o \in Officers :
                   (/\ k \in AsgIds
                    /\ assignments[k].status \notin {"completed", "cancelled"}
                    /\ reassignIssue_calendar(k, o, cal))
                   => /\ resp' = Response("reassignIssue", 200)
                      /\ assignments'[k].status = "reassigned"
                      /\ assignments'[Len(assignments')] =
                            NewAssignment(assignments[k].issue, o)
                      /\ issues'[assignments[k].issue].status = "assigned"
                      /\ issues'[assignments[k].issue].assignedTo = o]_vars

C24_AcceptedThoughLookupThrew ==
    /\ calendar = "lookupThrows"
    /\ resp = Response("acceptAssignment", 200)
    /\ \E k \in AsgIds : assignments[k].status = "accepted"

\* the createNotification calls of the request, of type t, to recipient r
Notices(calls, r, t) == {n \in DOMAIN calls : calls[n] = Notification(r, t)}

\* C25: ISSUE_ASSIGNED is created when, and only when, the Issue moves into
\* assigned: a successful createAssignment creates exactly one for the
\* officer and one for the reporter, and an updateIssue that saves an Issue
\* that is assigned, leaving its status and its officer as they are,
\* creates none.
C25_AssignedNoticeOnTransitionOnly ==
    [][/\ resp' = Response("createAssignment", 201)
          => \A i \in IssueIds, o \in Officers :
                (Found(issues, i) /\ createAssignment(i, o))
                => /\ Cardinality(Notices(notified', o, "ISSUE_ASSIGNED")) = 1
                   /\ Cardinality(Notices(notified', issues[i].reportedBy,
                                          "ISSUE_ASSIGNED")) = 1
       /\ resp' = Response("updateIssue", 200)
          => \A i \in IssueIds, b \in UpdateBodies(0..MaxOverride) :
                (/\ Found(issues, i)
                 /\ issues[i].status = "assigned"
                 /\ b[1] \in {"none", "assigned"}
                 /\ b[2] \in {NoOfficer, issues[i].assignedTo}
                 /\ updateIssue(i, b[1], b[2], b[3]))
                => \A n \in DOMAIN notified' : notified'[n].type # "ISSUE_ASSIGNED"]_vars

\* C26: every move of an Issue into resolved, by completeAssignment or by
\* updateIssue, creates exactly one ISSUE_RESOLVED for the Issue's reporter,
\* and an updateIssue that saves an Issue that is resolved and stays
\* resolved creates none.
C26_ResolvedNoticeOncePerTransition ==
    [][/\ resp' = Response("completeAssignment", 200)
          => \A k \in 1..MaxAsg, u \in Users :
                (/\ k \in AsgIds
                 /\ Found(issues, assignments[k].issue)
                 /\ issues[assignments[k].issue].status # "resolved"
                 /\ completeAssignment(k, u))
                => /\ issues'[assignments[k].issue].status = "resolved"
                   /\ Cardinality(Notices(notified',
                                          issues[assignments[k].issue].reportedBy,
                                          "ISSUE_RESOLVED")) = 1
       /\ resp' = Response("updateIssue", 200)
          => \A i \in IssueIds, b \in UpdateBodies(0..MaxOverride) :
                (/\ Found(issues, i)
                 /\ updateIssue(i, b[1], b[2], b[3])
                 /\ issues'[i].status = "resolved")
                => Cardinality(Notices(notified', issues[i].reportedBy,
                                       "ISSUE_RESOLVED"))
                      = IF issues[i].status # "resolved" THEN 1 ELSE 0]_vars

\* C27: updateIssue with a comment of non-empty text answers 200 and
\* appends exactly that comment at the end of the Issue's comments, the
\* earlier ones unchanged; with the empty text it answers with an error and
\* leaves the Issue as it was.
C27_AppendCommentRejectsEmpty ==
    [][resp'.op = "updateIssue"
       => \A i \in IssueIds, b \in UpdateBodies({0}), c \in CommentInputs, u \in Officers :
             (/\ Found(issues, i)
              /\ b[1] \in IssueStatus \cup {"none"}
              /\ updateIssue_comment(i, b[1], b[2], b[3], c, u))
             => /\ c \notin {NoComment, ""}
                   => /\ resp' = Response("updateIssue", 200)
                      /\ issues'[i].comments =
                            Append(issues[i].comments, [text |-> c, user |-> u])
                /\ c = ""
                   => /\ resp'.code >= 400
                      /\ issues' = issues]_vars

\* the one history entry that a step appends to Assignment k
Appended(k, action) ==
    assignments'[k].history = Append(assignments[k].history, action)

\* C28: a successful assign stores its Assignment with the one entry
\* assigned; a successful accept, reassign or complete appends to the
\* Assignment it acts on exactly one entry, tagged accepted, reassigned or
\* completed; no step removes or rewrites an entry of a stored history; and
\* so an Assignment whose status is accepted, completed or reassigned has
\* that status as the action of its last history entry.
C28_HistoryAppendOnly ==
    [][/\ \A k \in AsgIds :
             /\ k \in DOMAIN assignments'
             /\ Len(assignments'[k].history) >= Len(assignments[k].history)
             /\ SubSeq(assignments'[k].history, 1, Len(assignments[k].history))
                   = assignments[k].history
       /\ resp' = Response("createAssignment", 201)
          => \A i \in IssueIds, o \in Officers :
                createAssignment(i, o)
                => /\ Len(assignments') = Len(assignments) + 1
                   /\ assignments'[Len(assignments')].history = <<"assigned">>
       /\ resp' = Response("acceptAssignment", 200)
          => \A k \in 1..MaxAsg, u \in Officers :
                (k \in AsgIds /\ acceptAssignment(k, u)) => Appended(k, "accepted")
       /\ resp' = Response("reassignIssue", 200)
          => \A k \in 1..MaxAsg, o \in Officers :
                (k \in AsgIds /\ reassignIssue(k, o))
                => /\ Appended(k, "reassigned")
                   /\ assignments'[Len(assignments')].history = <<"assigned">>
       /\ resp' = Response("completeAssignment", 200)
          => \A k \in 1..MaxAsg, u \in Officers :
                (k \in AsgIds /\ completeAssignment(k, u)) => Appended(k, "completed")
       /\ \A k \in DOMAIN assignments' :
             assignments'[k].status \in {"accepted", "completed", "reassigned"}
             => assignments'[k].history[Len(assignments'[k].history)]
                   = assignments'[k].status]_vars

C28_CompletedAfterAccepted ==
    \E k \in AsgIds :
       /\ assignments[k].status = "completed"
       /\ assignments[k].history = <<"assigned", "accepted", "completed">>

\* C29: the Issue and its live Assignment agree: an active Assignment means
\* its Issue is assigned, to that Assignment's officer; an accepted one
\* means its Issue is in-progress, with that officer; and an Issue that is
\* open or has no assignedTo has no active or accepted Assignment.
C29_IssueAgreesWithAssignment ==
    \A k \in AsgIds :
       LET a == assignments[k]
           doc == issues[a.issue]
       IN  Found(issues, a.issue)
           => /\ a.status = "active"
                 => doc.status = "assigned" /\ doc.assignedTo = a.assignedTo
              /\ a.status = "accepted"
                 => doc.status = "in-progress" /\ doc.assignedTo = a.assignedTo
              /\ (doc.status = "open" \/ doc.assignedTo = NoOfficer)
                 => a.status \notin {"active", "accepted"}

\* the aggregate read back from the officer's stored User document; a
\* document without the two paths reads as no rating yet
PersistedAggregate(o) ==
    IF {"avgRating", "feedbackCount"} \subseteq DOMAIN users[o]
    THEN [avgRating |-> users[o].avgRating, count |-> users[o].feedbackCount]
    ELSE [avgRating |-> Fraction(0, 1), count |-> 0]

\* C30: after any sequence of feedback operations the aggregate persisted
\* on each officer equals the average and the count over the Feedback
\* that is now approved for that officer.
C30_AggregateTracksApproved ==
    \A o \in Officers :
       PersistedAggregate(o) = getOfficerAverageRating(feedbacks, o)
====
